---- MODULE Spec2Model ----
(***************************************************************************)
(* NeoRecorder: the recording core (utils/ffmpeg_handler.py FFmpegHandler, *)
(* core/recorder.py ScreenRecorder, and the GUI's start worker) as a state *)
(* machine.  Every lifecycle call of ScreenRecorder runs under its RLock,  *)
(* so against the other calls each call is one atomic action.  The         *)
(* external encoder (ffmpeg), the wall clock and the file system are the   *)
(* environment.  The specifications share the actions:                     *)
(*   Spec         the lifecycle calls at one instant of the wall clock;    *)
(*   ClockSpec    the calls that use the timestamps, with the clock        *)
(*                advancing between them;                                  *)
(*   MonitorSpec  the handler's monitor thread, which takes no lock,       *)
(*                interleaved with pause and stop split at the point       *)
(*                where they wait for the encoder;                         *)
(*   ProgressSpec the monitor's loop taken apart at its reads and writes   *)
(*                of the shared progress record;                           *)
(*   ThreadSpec   the GUI thread and the start workers taking the          *)
(*                recorder's lock in turn;                                 *)
(*   EncoderSpec  the encoder detection and choice alone;                  *)
(*   CacheSpec    the encoder queries interleaved with segment starts;     *)
(*   CommandSpec  the command line _try_ffmpeg builds;                     *)
(*   SettingsSpec the frame-rate and quality setters with the calls that   *)
(*                launch an encoder.                                       *)
(*                                                                         *)
(* Python's None is modelled by the falsy value of the field's type        *)
(* (0 for timestamps, process handles and temp directories, <<>> for the   *)
(* parameter dictionary), which is exactly what the code's truthiness      *)
(* tests (`if self.start_timestamp:`, `if not self._temp_dir`) observe.    *)
(***************************************************************************)
EXTENDS Integers, Sequences, FiniteSets, TLC

\* ---------------------------------------------------------------- bounds
MaxTime == 3        \* the wall clock runs 1..MaxTime
MaxProcs == 2       \* encoder processes spawned over a run
MaxTmp == 2         \* temp directories mkdtemp hands out over a run

\* ------------------------------------------------------- program constants
GdigrabFpsCap == 60
DEFAULT_FPS == 60

None == 0
Pids == 1..MaxProcs

\* config.py QUALITY_PRESETS: the registry of quality presets
QUALITY_PRESETS ==
    [ ultrafast |-> [crf |-> 23, preset |-> "ultrafast"],
      balanced  |-> [crf |-> 20, preset |-> "fast"],
      quality   |-> [crf |-> 18, preset |-> "medium"],
      lossless  |-> [crf |-> 0,  preset |-> "ultrafast"] ]

DEFAULT_QUALITY == "balanced"

\* The frame rates ScreenRecorder.set_fps accepts (config.FPS_OPTIONS lists
\* the same values for the GUI).
FPS_OPTIONS == {30, 60, 120, 144, 240}

\* The frame rates and preset keys the settings dialog and the settings
\* file hand to set_fps and set_quality: valid ones below and above the
\* gdigrab ceiling, and ones the recorder does not know.
FpsRequests == {25, 30, 144}

QualityRequests == {"lossless", "medium"}

\* config.py USE_HARDWARE_ENCODER
USE_HARDWARE_ENCODER == TRUE

\* How the capability query `ffmpeg -encoders` (subprocess.run) can end:
\* it raises (binary missing), it times out, or the binary exits with a
\* return code after printing a text in which some encoder tokens occur.
EncoderQueries ==
    { [ how |-> "raise",   returncode |-> 0, stdout |-> {} ],
      [ how |-> "timeout", returncode |-> 0, stdout |-> {} ],
      [ how |-> "exit",    returncode |-> 0, stdout |-> {} ],
      [ how |-> "exit",    returncode |-> 0,
        stdout |-> {"h264_qsv", "h264_amf"} ],
      [ how |-> "exit",    returncode |-> 1, stdout |-> {} ],
      [ how |-> "exit",    returncode |-> 1,
        stdout |-> {"h264_qsv", "h264_amf"} ] }

\* No capability query is made (the answer is cached).
NoQuery == [ how |-> "none", returncode |-> 0, stdout |-> {} ]

\* The tokens get_available_encoders looks for, in the order it appends.
EncoderTokens == << "h264_nvenc", "h264_qsv", "h264_amf", "hevc_nvenc" >>

\* The threads that call the recorder: the GUI's main thread, and the
\* threads the GUI starts to run _start_recording_worker.
Workers == {"worker1", "worker2"}

Threads == {"gui"} \cup Workers

\* ScreenRecorder._lock when no thread holds it.
Unlocked == "none"

\* A thread that is making no call.  A thread in a call holds the call's
\* name and how far it has come, and a stop also the call that held the
\* lock when the stop was made.
Idle == [ op |-> "none", at |-> "idle", behind |-> "none" ]

\* RecordingProgress(): the dataclass with its default values.  The frame
\* rate is held in tenths of a frame per second.
FreshProgress ==
    [ frame |-> 0, fps |-> 0, bitrate |-> "0kbits/s", size |-> "0kB",
      time |-> "00:00:00.00", speed |-> "0x", dropped |-> 0 ]

\* The diagnostic lines an encoder prints on stderr, each as the sequence
\* of its `key=value` items: a statistics line with a dropped-frame count,
\* one without, a statistics line cut short, and a line of plain text.
StatsWithDrop ==
    << [key |-> "frame", val |-> "120"], [key |-> "fps", val |-> "59.8"],
       [key |-> "q", val |-> "28.0"], [key |-> "size", val |-> "256kB"],
       [key |-> "time", val |-> "00:00:02.00"],
       [key |-> "bitrate", val |-> "1048.6kbits/s"],
       [key |-> "dup", val |-> "0"], [key |-> "drop", val |-> "3"],
       [key |-> "speed", val |-> "1.0x"] >>

StatsNoDrop ==
    << [key |-> "frame", val |-> "240"], [key |-> "fps", val |-> "60.0"],
       [key |-> "q", val |-> "28.0"], [key |-> "size", val |-> "512kB"],
       [key |-> "time", val |-> "00:00:04.00"],
       [key |-> "bitrate", val |-> "1048.6kbits/s"],
       [key |-> "speed", val |-> "1.0x"] >>

StatsCutShort ==
    << [key |-> "frame", val |-> "360"], [key |-> "fps", val |-> "60.0"],
       [key |-> "q", val |-> "28.0"], [key |-> "size", val |-> "768kB"] >>

PlainText == << [key |-> "", val |-> "Press [q] to stop, [?] for help"] >>

StderrLines == { StatsWithDrop, StatsNoDrop, StatsCutShort, PlainText }

\* A monitor thread's line_str before it has read a line.
NoLine == [ from |-> None, items |-> <<>> ]

\* What one subprocess.Popen call can do: raise (binary missing, bad
\* handle), return a process that exits at once, return a running process.
PopenOutcomes == {"raise", "exited", "running"}

\* The outcomes of the successive Popen calls of one _start_segment call
\* (the code makes at most two).
PopenPlans == [1..2 -> PopenOutcomes]


VARIABLES
    \* FFmpegHandler
    process, current_output, start_timestamp, _available_encoders,
    _segments, _segment_index, _is_paused, _pause_start,
    _total_pause_duration, _recording_params, _final_output, _temp_dir,
    _is_recording, _log_file, _last_progress, _output_queue,
    \* ScreenRecorder
    is_recording, current_output_path, fps, quality,
    \* environment: clock, encoder processes, file system
    now, procs, next_tmp, dirs, files,
    \* the monitor threads (one is started per launched encoder), the
    \* lifecycle call that holds the recorder's lock between its steps, and
    \* the error-callback invocations the monitors have made
    monitors, inflight, reported,
    \* ScreenRecorder._lock (the thread that holds it), the threads that
    \* call the recorder (the GUI thread and the GUI's start workers) with
    \* the call each is making, and each monitor thread's local line_str
    _lock, threads, line_str,
    \* observation: the call that has just returned, and the time the
    \* handler has spent with is_paused() true in the current session
    last, paused_time

handlerVars ==
    << process, current_output, start_timestamp, _available_encoders,
       _segments, _segment_index, _is_paused, _pause_start,
       _total_pause_duration, _recording_params, _final_output, _temp_dir,
       _is_recording, _log_file, _last_progress, _output_queue >>

recorderVars == << is_recording, current_output_path, fps, quality >>

envVars == << now, procs, next_tmp, dirs, files >>

threadVars == << _lock, threads, line_str >>

monitorVars == << monitors, inflight, reported, threadVars >>

vars == << handlerVars, recorderVars, envVars, monitorVars, last, paused_time >>

\* The session state a rejected call must leave alone.
sessionVars ==
    << process, current_output, start_timestamp, _segments, _segment_index,
       _is_paused, _pause_start, _total_pause_duration, _recording_params,
       _final_output, _temp_dir, _is_recording, _log_file >>

\* ------------------------------------------------------------ pure helpers
Min_First(a, b) == a

Min(a, b) == IF a <= b THEN a ELSE b

Max(a, b) == IF a >= b THEN a ELSE b

Range(s) == { s[i] : i \in DOMAIN s }

\* int() and float() on the digit strings the patterns let through (the
\* float in tenths).
int(s) ==
    IF s = "0" THEN 0 ELSE IF s = "3" THEN 3 ELSE IF s = "120" THEN 120
    ELSE IF s = "240" THEN 240 ELSE 360

float(s) == IF s = "59.8" THEN 598 ELSE 600

KeyAt(items, i) == IF i \in DOMAIN items THEN items[i].key ELSE "<end>"

\* progress_pattern from its `size=` on: size, time and bitrate follow one
\* another, and a speed item comes somewhere after them.
SizeAt(items, j) ==
    /\ KeyAt(items, j) = "size" /\ KeyAt(items, j + 1) = "time"
    /\ KeyAt(items, j + 2) = "bitrate"
    /\ \E k \in (j + 3)..Len(items) : KeyAt(items, k) = "speed"

\* progress_pattern from its start: frame, then fps, then anything, then
\* the rest.
FrameAt(items, i) ==
    /\ KeyAt(items, i) = "frame" /\ KeyAt(items, i + 1) = "fps"
    /\ \E j \in (i + 2)..Len(items) : SizeAt(items, j)

Least(S) == CHOOSE n \in S : \A m \in S : n <= m

\* progress_pattern.search(line_str): <<>> for no match, else the six groups
\* of the leftmost match, its two `.*?` taking as little as they can.
progress_pattern(items) ==
    IF \A i \in DOMAIN items : ~FrameAt(items, i) THEN <<>>
    ELSE LET i == Least({ n \in DOMAIN items : FrameAt(items, n) })
             j == Least({ n \in (i + 2)..Len(items) : SizeAt(items, n) })
             k == Least({ n \in (j + 3)..Len(items) :
                          KeyAt(items, n) = "speed" })
         IN  << items[i].val, items[i + 1].val, items[j].val,
                items[j + 1].val, items[j + 2].val, items[k].val >>

\* dropped_pattern.search(line_str): <<>> for no match, else the group of
\* the leftmost `drop=` item.
dropped_pattern(items) ==
    IF \A i \in DOMAIN items : items[i].key # "drop" THEN <<>>
    ELSE << items[Least({ n \in DOMAIN items : items[n].key = "drop" })].val >>

\* The RecordingProgress the monitor builds from the groups of a match; it
\* leaves `dropped` at its default.
RecordingProgress(match) ==
    [ FreshProgress EXCEPT !.frame = int(match[1]), !.fps = float(match[2]),
                           !.size = match[3], !.time = match[4],
                           !.bitrate = match[5], !.speed = match[6] ]

\* The progress parsed from a statistics line of encoder `pid`, where only
\* the encoder matters: its frame count tells the encoders apart.
ProgressOf(pid) == [ FreshProgress EXCEPT !.frame = pid ]

\* get_available_encoders, the list it builds from one capability query:
\* empty when subprocess.run raised or timed out, else the tokens that occur
\* in the output, whatever the return code.
DetectEncoders(probe) ==
    IF probe.how # "exit" THEN <<>>
    ELSE SelectSeq(EncoderTokens, LAMBDA t : t \in probe.stdout)

\* FFmpegHandler.get_available_encoders: the cache when it is set, else the
\* answer of the capability query (which the caller then stores).
get_available_encoders(cache, probe) ==
    IF cache # <<>> THEN cache[1] ELSE DetectEncoders(probe)

get_best_encoder_AmfFirst(use_hardware, encoders) ==
    IF ~use_hardware THEN "libx264"
    ELSE IF "h264_amf" \in Range(encoders) THEN "h264_amf"
    ELSE IF "h264_nvenc" \in Range(encoders) THEN "h264_nvenc"
    ELSE IF "h264_qsv" \in Range(encoders) THEN "h264_qsv"
    ELSE "libx264"

\* FFmpegHandler.get_best_encoder: software when hardware is disabled
\* (`use_hardware` is config.USE_HARDWARE_ENCODER), else the first of nvenc,
\* qsv, amf that was detected, else software.
get_best_encoder(use_hardware, encoders) ==
    IF ~use_hardware THEN "libx264"
    ELSE IF "h264_nvenc" \in Range(encoders) THEN "h264_nvenc"
    ELSE IF "h264_qsv" \in Range(encoders) THEN "h264_qsv"
    ELSE IF "h264_amf" \in Range(encoders) THEN "h264_amf"
    ELSE "libx264"

IsHardware(enc) == enc # "libx264"

\* _try_ffmpeg, the preset values it works with: those of the key, or
\* those of "balanced" when the registry has no such key.
QualityOf(quality_preset) ==
    IF quality_preset \in DOMAIN QUALITY_PRESETS
    THEN QUALITY_PRESETS[quality_preset]
    ELSE QUALITY_PRESETS["balanced"]

\* _try_ffmpeg, the encoder options: the speed preset the command carries.
EncoderPreset(enc, quality_preset) ==
    IF enc = "libx264" THEN QualityOf(quality_preset).preset
    ELSE IF enc = "h264_nvenc" THEN "p4"
    ELSE IF enc = "h264_qsv" THEN "faster"
    ELSE "speed"

\* The capture rectangles of a request: None (falsy, the empty tuple here)
\* or (x, y, x2, y2) in screen coordinates, which are negative on a monitor
\* to the left of or above the primary one.
Corners == { << 0, 0 >>, << -2, 1 >> }

Rects == {<<>>} \cup { << c[1], c[2], x2, y2 >> : c \in Corners, x2, y2 \in {3, 4} }

\* The frame rates _try_ffmpeg is called with.
Framerates == FPS_OPTIONS \cap FpsRequests

RegionArgs_KeepsOdd(rect) ==
    IF rect = <<>> THEN <<>>
    ELSE << [ flag |-> "-offset_x", value |-> rect[1] ],
            [ flag |-> "-offset_y", value |-> rect[2] ],
            [ flag |-> "-video_size",
              value |-> << rect[3] - rect[1], rect[4] - rect[2] >> ] >>

\* _try_ffmpeg, the region options of the command.  The numbers stand for
\* their decimal text (str), the pair << w, h >> for the text "{w}x{h}".
RegionArgs(rect) ==
    IF rect = <<>> THEN <<>>
    ELSE LET x == rect[1]
             y == rect[2]
             w0 == rect[3] - x
             h0 == rect[4] - y
             w == IF w0 % 2 = 0 THEN w0 ELSE w0 - 1
             h == IF h0 % 2 = 0 THEN h0 ELSE h0 - 1
         IN  << [ flag |-> "-offset_x", value |-> x ],
                [ flag |-> "-offset_y", value |-> y ],
                [ flag |-> "-video_size", value |-> << w, h >> ] >>

\* _try_ffmpeg, the options of the command that carry the preset's
\* compression value to the encoder.
RateControl(enc, quality_preset) ==
    LET crf == QualityOf(quality_preset).crf
    IN  IF enc = "libx264" THEN << [ flag |-> "-crf", value |-> crf ] >>
        ELSE IF enc = "h264_nvenc"
        THEN << [ flag |-> "-cq", value |-> crf + 5 ] >>
        ELSE IF enc = "h264_qsv"
        THEN << [ flag |-> "-global_quality", value |-> crf + 5 ] >>
        ELSE IF enc = "h264_amf"
        THEN << [ flag |-> "-qp_i", value |-> crf ],
                [ flag |-> "-qp_p", value |-> crf ] >>
        ELSE <<>>

\* _try_ffmpeg, the command it builds.
cmd(input_format, rect, framerate, quality_preset, enc) ==
    [ f |-> input_format, framerate |-> framerate,
      region |-> RegionArgs(rect), c_v |-> enc,
      rate |-> RateControl(enc, quality_preset) ]

\* The first process id not yet handed out.
NextPid == CHOOSE p \in Pids : procs[p] = "unborn" /\ \A q \in Pids : q < p => procs[q] # "unborn"

PidsLeft == \E p \in Pids : procs[p] = "unborn"

\* _try_ffmpeg: one launch attempt.  It builds the command, opens the
\* segment log, calls Popen and, unless Popen raised, starts the monitor and
\* returns True; it does not look at the process again.  `st` carries
\* process, _log_file and the launches made so far.
_try_ffmpeg(st, input_format, framerate, quality_preset, encoder, outcome) ==
    LET launch == [ backend |-> input_format, fps |-> framerate,
                    encoder |-> encoder,
                    preset |-> EncoderPreset(encoder, quality_preset),
                    quality |-> quality_preset,
                    crf |-> QualityOf(quality_preset).crf,
                    outcome |-> outcome ]
    IN  IF outcome = "raise"
        THEN [ ok |-> FALSE, process |-> st.process, log_file |-> FALSE,
               launches |-> Append(st.launches, launch), spawned |-> st.spawned ]
        ELSE [ ok |-> TRUE, process |-> NextPid, log_file |-> TRUE,
               launches |-> Append(st.launches, launch),
               spawned |-> IF outcome = "running" THEN "running" ELSE "exit1" ]

\* _start_segment: name the next segment, append it to the segment list,
\* try ddagrab at the requested frame rate, then gdigrab at min(fps, 60)
\* when the first attempt returned False; on success mark the handler
\* recording and advance the segment index.  `h` carries the handler fields
\* the method reads and writes (start_recording and resume have already
\* written some of them when they call it).
_start_segment(h, plan, encoder) ==
    IF h.temp_dir = None \/ h.recording_params = <<>>
    THEN [ h EXCEPT !.ok = FALSE ]
    ELSE
    LET params == h.recording_params[1]
        segment_path == << h.temp_dir, h.segment_index >>
        st0 == [ process |-> h.process, log_file |-> h.log_file,
                 launches |-> <<>>, spawned |-> "unborn" ]
        first == _try_ffmpeg(st0, "ddagrab", params.framerate,
                             params.quality_preset, encoder, plan[1])
        fallback_fps == Min(params.framerate, GdigrabFpsCap)
        second == IF first.ok THEN first
                  ELSE _try_ffmpeg(first, "gdigrab", fallback_fps,
                                   params.quality_preset, encoder, plan[2])
    IN  [ h EXCEPT
          !.ok = second.ok,
          !.segments = Append(h.segments, segment_path),
          !.current_output = segment_path,
          !.process = second.process,
          !.log_file = second.log_file,
          !.launches = second.launches,
          !.spawned = second.spawned,
          !.is_recording = IF second.ok THEN TRUE ELSE h.is_recording,
          !.segment_index = IF second.ok THEN h.segment_index + 1
                            ELSE h.segment_index ]

\* The handler fields _start_segment works on, as they stand.
SegmentState ==
    [ ok |-> FALSE, temp_dir |-> _temp_dir, recording_params |-> _recording_params,
      segments |-> _segments, segment_index |-> _segment_index,
      current_output |-> current_output, process |-> process,
      log_file |-> _log_file, is_recording |-> _is_recording,
      launches |-> <<>>, spawned |-> "unborn" ]

SpawnEffects_CleansUpOnFailure(r) ==
    /\ procs' = IF r.spawned = "unborn" THEN procs
                ELSE [procs EXCEPT ![r.process] = r.spawned]
    /\ monitors' = IF r.spawned = "unborn" THEN monitors
                   ELSE [monitors EXCEPT ![r.process] = "loop"]
    /\ files' = IF r.spawned = "running" THEN files \cup {r.current_output}
                ELSE IF r.spawned = "unborn"
                THEN { f \in files : f[1] # r.temp_dir }
                ELSE files

\* What a segment start does outside the handler: the spawned process
\* exists from now on (running, or already exited), its monitor thread is
\* started, and a running encoder has created its segment file.
SpawnEffects(r) ==
    /\ procs' = IF r.spawned = "unborn" THEN procs
                ELSE [procs EXCEPT ![r.process] = r.spawned]
    /\ monitors' = IF r.spawned = "unborn" THEN monitors
                   ELSE [monitors EXCEPT ![r.process] = "loop"]
    /\ files' = IF r.spawned = "running" THEN files \cup {r.current_output}
                ELSE files

\* The handler fields a segment start leaves behind.
SegmentAssign(r) ==
    /\ _segments' = r.segments
    /\ _segment_index' = r.segment_index
    /\ current_output' = r.current_output
    /\ process' = r.process
    /\ _log_file' = r.log_file
    /\ _is_recording' = r.is_recording

\* The capability cache after a call that asked for the best encoder:
\* get_best_encoder asks get_available_encoders only when hardware encoding
\* is enabled, and that one queries only while the cache is unset.
CacheAfterChoice_ForgetsFailure(use_hardware, probe) ==
    IF use_hardware /\ _available_encoders = <<>> /\ probe.how = "exit"
    THEN << DetectEncoders(probe) >> ELSE _available_encoders

CacheAfterChoice(use_hardware, probe) ==
    IF use_hardware /\ _available_encoders = <<>>
    THEN << DetectEncoders(probe) >> ELSE _available_encoders

CacheAfter(probe) == CacheAfterChoice(USE_HARDWARE_ENCODER, probe)

\* The answers the capability query can give when it is made: it is made
\* only while the cache is unset.
Probes == IF _available_encoders = <<>> THEN EncoderQueries ELSE {NoQuery}

BestEncoder(probe) ==
    get_best_encoder(USE_HARDWARE_ENCODER,
                     get_available_encoders(_available_encoders, probe))

get_elapsed_time_IgnoresOpenPause ==
    IF start_timestamp = None THEN 0
    ELSE Max(0, now - start_timestamp - _total_pause_duration)

\* FFmpegHandler.get_elapsed_time
get_elapsed_time ==
    IF start_timestamp = None THEN 0
    ELSE LET elapsed == now - start_timestamp - _total_pause_duration
         IN  Max(0, IF _is_paused /\ _pause_start # None
                    THEN elapsed - (now - _pause_start)
                    ELSE elapsed)

\* FFmpegHandler.is_paused
is_paused == _is_paused

\* No lifecycle call is between its steps (the recorder's lock is free).
NoCallInFlight == [ op |-> "none", resp |-> "none" ]

\* The record of a call that has just returned.
\* No command has been built.
NoCommand ==
    [ f |-> "none", framerate |-> 0, region |-> <<>>, c_v |-> "none",
      rate |-> <<>> ]

NoCall ==
    [ op |-> "none", ok |-> FALSE, plan |-> <<>>, launches |-> <<>>,
      cb |-> {}, duration |-> 0, elapsed_at_call |-> 0, rejected |-> FALSE,
      output_path |-> <<>>, segments_count |-> 0,
      merge |-> "none", manifest |-> <<>>, content |-> <<>>,
      cleanup |-> "none", query |-> NoQuery,
      use_hardware |-> TRUE, encoder |-> "none",
      fps_arg |-> 0, quality_arg |-> "none",
      progress |-> FreshProgress, line |-> NoLine,
      rect |-> <<>>, cmd |-> NoCommand ]

\* ------------------------------------------------------------------ Init
Init ==
    /\ process = None
    /\ current_output = <<>>
    /\ start_timestamp = None
    /\ _available_encoders = <<>>
    /\ _segments = <<>>
    /\ _segment_index = 0
    /\ _is_paused = FALSE
    /\ _pause_start = None
    /\ _total_pause_duration = 0
    /\ _recording_params = <<>>
    /\ _final_output = None
    /\ _temp_dir = None
    /\ _is_recording = FALSE
    /\ _log_file = FALSE
    /\ _last_progress = FreshProgress
    /\ _output_queue = {}
    /\ is_recording = FALSE
    /\ current_output_path = None
    /\ fps = DEFAULT_FPS
    /\ quality = DEFAULT_QUALITY
    /\ now = 1
    /\ procs = [p \in Pids |-> "unborn"]
    /\ next_tmp = 1
    /\ dirs = {}
    /\ files = {}
    /\ monitors = [p \in Pids |-> "none"]
    /\ inflight = NoCallInFlight
    /\ reported = <<>>
    /\ _lock = Unlocked
    /\ threads = [t \in Threads |-> Idle]
    /\ line_str = [p \in Pids |-> NoLine]
    /\ last = NoCall
    /\ paused_time = 0

\* --------------------------------------------------------------- actions

\* FFmpegHandler.start_recording past its guard: reset the session fields,
\* make the temp directory, store the parameters, stamp the start and
\* start the first segment.
start_recording(output_path, plan, probe) ==
    LET h0 == [ SegmentState EXCEPT
                !.temp_dir = next_tmp,
                !.recording_params =
                    << [framerate |-> fps, quality_preset |-> quality] >>,
                !.segments = <<>>, !.segment_index = 0 ]
        r == _start_segment(h0, plan, BestEncoder(probe))
    IN  /\ _is_paused' = FALSE
        /\ _total_pause_duration' = 0
        /\ _final_output' = output_path
        /\ _temp_dir' = next_tmp
        /\ next_tmp' = next_tmp + 1
        /\ dirs' = dirs \cup {next_tmp}
        /\ _recording_params' = h0.recording_params
        /\ start_timestamp' = now
        /\ SegmentAssign(r)
        /\ SpawnEffects(r)
        /\ _available_encoders' = CacheAfter(probe)
        /\ paused_time' = 0
        /\ UNCHANGED << _pause_start, now, _last_progress, _output_queue >>

StartOk(plan, probe) ==
    _start_segment([ SegmentState EXCEPT
                     !.temp_dir = next_tmp,
                     !.recording_params =
                         << [framerate |-> fps, quality_preset |-> quality] >>,
                     !.segments = <<>>, !.segment_index = 0 ],
                   plan, BestEncoder(probe))

AlreadyRecording_Never == FALSE

\* FFmpegHandler.start_recording, its guard: a handler that is recording
\* logs a warning and returns False.
AlreadyRecording == _is_recording

\* ScreenRecorder.start: under the lock, refuse when already recording,
\* else name the output file after the time and start the handler, which
\* refuses itself when it is recording.  `worker` is the GUI's
\* _start_recording_worker, which clears ScreenRecorder.is_recording when
\* start returned None.
RecorderStart(worker, plan, probe) ==
    /\ UNCHANGED << inflight, reported, threadVars >>
    /\ IF is_recording
       THEN /\ last' = [ NoCall EXCEPT !.op = "start", !.rejected = TRUE,
                         !.elapsed_at_call = get_elapsed_time ]
            /\ is_recording' = IF worker THEN FALSE ELSE is_recording
            /\ UNCHANGED << handlerVars, envVars, monitors, paused_time,
                            current_output_path, fps, quality >>
       ELSE IF AlreadyRecording
       THEN /\ last' = [ NoCall EXCEPT !.op = "start", !.rejected = TRUE,
                         !.elapsed_at_call = get_elapsed_time ]
            /\ current_output_path' = None
            /\ UNCHANGED << handlerVars, envVars, monitors, paused_time,
                            is_recording, fps, quality >>
       ELSE /\ PidsLeft
            /\ next_tmp <= MaxTmp
            /\ start_recording(next_tmp, plan, probe)
            /\ LET r == StartOk(plan, probe)
               IN  /\ last' = [ NoCall EXCEPT !.op = "start", !.ok = r.ok,
                                !.plan = plan, !.launches = r.launches,
                                !.elapsed_at_call = get_elapsed_time,
                                !.query = probe ]
                   /\ is_recording' = r.ok
                   /\ current_output_path' = IF r.ok THEN next_tmp ELSE None
            /\ UNCHANGED << fps, quality >>

\* The inputs a start call consumes: none when it is refused.
StartPlans == IF is_recording \/ AlreadyRecording THEN {<<>>} ELSE PopenPlans

start == \E plan \in StartPlans, probe \in Probes :
    RecorderStart(FALSE, plan, probe)

_start_recording_worker == \E plan \in StartPlans, probe \in Probes :
    RecorderStart(TRUE, plan, probe)

\* How a running encoder answers the stop escalation: it quits on the 'q'
\* byte, or only on terminate(), or on neither within the timeouts (and
\* then dies only by stop_recording's kill()).
StopResponses == {"quit", "term", "stuck"}

\* The process table after pause() has tried to stop the handler's process:
\* 'q' and wait(5), on timeout or a failed write terminate() and wait(3),
\* whose failure is swallowed.  A process that had exited by itself keeps
\* its exit status ("exit1"); one the escalation ended is "gone"; one that
\* outlived the escalation is still "running" with no handle left.
PauseStops(resp) ==
    [procs EXCEPT ![process] =
        IF procs[process] = "running" /\ resp = "stuck" THEN "running"
        ELSE IF procs[process] = "exit1" THEN "exit1"
        ELSE "gone"]

\* The same for stop_recording, which ends the escalation with kill(); the
\* exited encoders of the session that ends are of no account afterwards.
StopStops(resp) ==
    [p \in Pids |->
        IF (~_is_paused /\ p = process) \/ procs[p] = "exit1" THEN "gone"
        ELSE procs[p]]

\* FFmpegHandler.pause: whether the call is accepted.
PauseOk == _is_recording /\ ~_is_paused /\ process # None

\* FFmpegHandler.pause (everything but the call record).
pause(resp) ==
    IF ~PauseOk
    THEN UNCHANGED << handlerVars, envVars, monitors, paused_time >>
    ELSE /\ procs' = PauseStops(resp)
         /\ _log_file' = FALSE
         /\ process' = None
         /\ _is_paused' = TRUE
         /\ _pause_start' = now
         /\ UNCHANGED << current_output, start_timestamp, _available_encoders,
                         _segments, _segment_index, _total_pause_duration,
                         _recording_params, _final_output, _temp_dir,
                         _is_recording, _last_progress, _output_queue,
                         now, next_tmp, dirs, files, monitors, paused_time >>

ResumeAccepted_IgnoresPauseFlag == _is_recording

\* FFmpegHandler.resume: whether the call passes its guard, and what its
\* segment start then returns.
ResumeAccepted == _is_recording /\ _is_paused

ResumeSegment(plan, probe) ==
    _start_segment(SegmentState, plan, BestEncoder(probe))

\* FFmpegHandler.resume (everything but the call record): add the pause
\* that ends now to the total, clear the pause flag, start a new segment.
resume(plan, probe) ==
    IF ~ResumeAccepted
    THEN UNCHANGED << handlerVars, envVars, monitors, paused_time >>
    ELSE LET r == ResumeSegment(plan, probe)
         IN  /\ _total_pause_duration' =
                    IF _pause_start # None
                    THEN _total_pause_duration + (now - _pause_start)
                    ELSE _total_pause_duration
             /\ _pause_start' = None
             /\ _is_paused' = FALSE
             /\ SegmentAssign(r)
             /\ SpawnEffects(r)
             /\ _available_encoders' = CacheAfter(probe)
             /\ UNCHANGED << start_timestamp, _recording_params, _final_output,
                             _temp_dir, _last_progress, _output_queue,
                             now, next_tmp, dirs, paused_time >>

\* The call record of a resume.
ResumeRecord(op, plan, probe) ==
    IF ~ResumeAccepted
    THEN [ NoCall EXCEPT !.op = op, !.rejected = TRUE ]
    ELSE LET r == ResumeSegment(plan, probe)
         IN  [ NoCall EXCEPT !.op = op, !.ok = r.ok, !.plan = plan,
               !.launches = r.launches, !.query = probe,
               !.cb = IF r.ok THEN {} ELSE {"error"} ]

\* How the merge step's file operation ends: shutil.move for one segment,
\* the concat run for several.
MergeOutcomes == {"ok", "fail"}

\* _merge_segments, the segments that exist on disk, in list order.
ExistingSegments == SelectSeq(_segments, LAMBDA s : s \in files)

\* The inputs a pause or a stop consumes: the answer of the process it
\* signals, when it signals a running one.
PauseInputs ==
    IF is_recording /\ PauseOk /\ procs[process] = "running"
    THEN StopResponses ELSE {"quit"}

StopInputs ==
    IF is_recording /\ ~_is_paused /\ process # None /\ procs[process] = "running"
    THEN StopResponses ELSE {"quit"}

MergeInputs ==
    IF is_recording /\ ExistingSegments # <<>> THEN MergeOutcomes ELSE {"ok"}

\* The inputs a resume consumes.
ResumePlans == IF is_recording /\ ResumeAccepted THEN PopenPlans ELSE {<<>>}

\* ScreenRecorder.pause
RecorderPause ==
    \E resp \in PauseInputs :
    /\ UNCHANGED << inflight, reported, threadVars >>
    /\ IF ~is_recording
       THEN /\ last' = [ NoCall EXCEPT !.op = "pause", !.rejected = TRUE ]
            /\ UNCHANGED << handlerVars, recorderVars, envVars, monitors, paused_time >>
       ELSE /\ pause(resp)
            /\ last' = [ NoCall EXCEPT !.op = "pause", !.ok = PauseOk,
                         !.rejected = ~PauseOk ]
            /\ UNCHANGED recorderVars

\* ScreenRecorder.resume
RecorderResume ==
    \E plan \in ResumePlans, probe \in Probes :
    /\ is_recording /\ ResumeAccepted => PidsLeft
    /\ UNCHANGED << inflight, reported, threadVars >>
    /\ IF ~is_recording
       THEN /\ last' = [ NoCall EXCEPT !.op = "resume", !.rejected = TRUE ]
            /\ UNCHANGED << handlerVars, recorderVars, envVars, monitors, paused_time >>
       ELSE /\ resume(plan, probe)
            /\ last' = ResumeRecord("resume", plan, probe)
            /\ UNCHANGED recorderVars

\* ScreenRecorder.toggle_pause over FFmpegHandler.toggle_pause: resume and
\* return False when paused, else pause and return True.
RecorderTogglePause ==
    \E plan \in ResumePlans, probe \in Probes, resp \in PauseInputs :
    /\ is_recording /\ ResumeAccepted => PidsLeft
    /\ UNCHANGED << inflight, reported, threadVars >>
    /\ IF ~is_recording
       THEN /\ last' = [ NoCall EXCEPT !.op = "toggle_pause", !.rejected = TRUE ]
            /\ UNCHANGED << handlerVars, recorderVars, envVars, monitors, paused_time >>
       ELSE IF _is_paused
       THEN /\ resume(plan, probe)
            /\ last' = [ ResumeRecord("toggle_pause", plan, probe)
                         EXCEPT !.ok = FALSE ]
            /\ UNCHANGED recorderVars
       ELSE /\ pause(resp)
            /\ last' = [ NoCall EXCEPT !.op = "toggle_pause", !.ok = TRUE ]
            /\ UNCHANGED recorderVars

\* FFmpegHandler.stop_recording: the duration it reports.
StopDuration ==
    IF start_timestamp # None
    THEN now - start_timestamp - _total_pause_duration
    ELSE 0

\* The path of a final output file: the recorder's output directory is
\* directory 0, the file is named after the session.
FinalPath(output) == << 0, output >>

ConcatManifest_SkipsFirst(existing_segments) == Tail(existing_segments)

\* _merge_segments, the concat list it writes when several segments exist:
\* one `file` line per existing segment, in the order of the list.
ConcatManifest(existing_segments) == existing_segments

_merge_segments_FallsBackToFirst(m) ==
    LET existing_segments == ExistingSegments
    IN  IF existing_segments = <<>> THEN <<>>
        ELSE IF m = "ok" THEN FinalPath(_final_output)
        ELSE existing_segments[1]

\* _merge_segments, the path it returns (<<>> for None): nothing without an
\* existing segment; the final path when the move or the concat run
\* succeeded; else the only segment, or the last one.
_merge_segments(m) ==
    LET existing_segments == ExistingSegments
    IN  IF existing_segments = <<>> THEN <<>>
        ELSE IF m = "ok" THEN FinalPath(_final_output)
        ELSE existing_segments[Len(existing_segments)]

\* _merge_segments, the content of the file at the path it returns, as the
\* sequence of segments whose material the file holds: a move keeps the
\* content of the one segment, a concat run joins the listed segments, a
\* fallback path is a segment as it stands.
MergedContent(m) ==
    LET existing_segments == ExistingSegments
    IN  IF existing_segments = <<>> THEN <<>>
        ELSE IF m # "ok" THEN << _merge_segments(m) >>
        ELSE IF Len(existing_segments) = 1 THEN << existing_segments[1] >>
        ELSE ConcatManifest(existing_segments)

MergedFiles_MoveLosesFile(m) ==
    LET existing_segments == ExistingSegments
    IN  IF existing_segments = <<>> \/ m # "ok" THEN files
        ELSE IF Len(existing_segments) = 1
        THEN files \ {existing_segments[1]}
        ELSE files \cup {FinalPath(_final_output)}

\* _merge_segments, the files it leaves: a move takes the segment away and
\* puts the final file, a concat run that succeeded creates the final file.
MergedFiles(m) ==
    LET existing_segments == ExistingSegments
    IN  IF existing_segments = <<>> \/ m # "ok" THEN files
        ELSE IF Len(existing_segments) = 1
        THEN (files \ {existing_segments[1]}) \cup {FinalPath(_final_output)}
        ELSE files \cup {FinalPath(_final_output)}

\* How shutil.rmtree(ignore_errors=True) ends: the tree is removed, or the
\* removal fails (a file in use, no permission) and the error is ignored.
CleanupOutcomes == {"ok", "fail"}

CleanupInputs ==
    IF is_recording /\ _temp_dir # None THEN CleanupOutcomes ELSE {"ok"}

_cleanup_temp_KeepsFiles(fs, rm) == fs

\* _cleanup_temp, the files left of `fs`: the temp directory is removed
\* with everything in it, unless the removal fails.
_cleanup_temp(fs, rm) ==
    IF _temp_dir = None \/ rm = "fail" THEN fs
    ELSE { f \in fs : f[1] # _temp_dir }

\* FFmpegHandler.stop_recording (everything but the call record): stop the
\* process unless paused, close the log, merge, remove the temp directory,
\* call on_stopped and reset the session fields.
stop_recording(resp, m, rm) ==
    /\ procs' = StopStops(resp)
    /\ process' = IF ~_is_paused THEN None ELSE process
    /\ _log_file' = FALSE
    /\ dirs' = IF _temp_dir = None \/ rm = "fail" THEN dirs
               ELSE dirs \ {_temp_dir}
    /\ files' = _cleanup_temp(MergedFiles(m), rm)
    /\ _temp_dir' = None
    /\ _is_recording' = FALSE
    /\ _is_paused' = FALSE
    /\ current_output' = <<>>
    /\ start_timestamp' = None
    /\ _total_pause_duration' = 0
    /\ _segments' = <<>>
    /\ _segment_index' = 0
    /\ _last_progress' = FreshProgress
    /\ UNCHANGED << _available_encoders, _pause_start, _recording_params,
                    _final_output, _output_queue, now, next_tmp, monitors >>
    /\ paused_time' = 0

\* The result dictionary stop_recording returns and hands to on_stopped.
StopRecord(m) ==
    [ NoCall EXCEPT !.op = "stop", !.ok = TRUE,
                    !.output_path = _merge_segments(m),
                    !.merge = IF ExistingSegments = <<>> THEN "none" ELSE m,
                    !.manifest = IF Len(ExistingSegments) > 1
                                 THEN ConcatManifest(ExistingSegments)
                                 ELSE <<>>,
                    !.content = MergedContent(m),
                    !.segments_count = Len(_segments),
                    !.duration = StopDuration,
                    !.elapsed_at_call = get_elapsed_time,
                    !.cb = {"stopped"} ]

\* ScreenRecorder.stop
RecorderStop ==
    \E resp \in StopInputs, m \in MergeInputs, rm \in CleanupInputs :
    /\ UNCHANGED << inflight, reported, threadVars >>
    /\ IF ~is_recording
       THEN /\ last' = [ NoCall EXCEPT !.op = "stop", !.rejected = TRUE ]
            /\ UNCHANGED << handlerVars, recorderVars, envVars, monitors, paused_time >>
       ELSE /\ stop_recording(resp, m, rm)
            /\ last' = [ StopRecord(m) EXCEPT !.cleanup = rm ]
            /\ is_recording' = FALSE
            /\ UNCHANGED << current_output_path, fps, quality >>

\* The environment: the encoder process the handler holds dies on its own
\* with a non-zero exit code.  (A process whose handle was dropped is read
\* by nothing in the program any more; when it dies is not modelled.)
ProcExit ==
    /\ process # None
    /\ procs[process] = "running"
    /\ procs' = [procs EXCEPT ![process] = "exit1"]
    /\ last' = NoCall
    /\ UNCHANGED << handlerVars, recorderVars, now, next_tmp, dirs, files,
                    monitorVars, paused_time >>

\* The wall clock advances.
Tick ==
    /\ now < MaxTime
    /\ now' = now + 1
    /\ paused_time' = IF _is_paused THEN paused_time + 1 ELSE paused_time
    /\ last' = NoCall
    /\ UNCHANGED << handlerVars, recorderVars, procs, next_tmp, dirs, files,
                    monitorVars >>

Next ==
    \/ start
    \/ _start_recording_worker
    \/ RecorderPause
    \/ RecorderResume
    \/ RecorderTogglePause
    \/ RecorderStop
    \/ ProcExit

\* The lifecycle calls of the recorder and of the GUI's start worker, and
\* the death of the encoder, at one instant of the wall clock.
Spec == Init /\ [][Next]_vars

\* The lifecycle calls that read or write the handler's timestamps, with
\* the wall clock advancing between them.
ClockNext ==
    \/ start
    \/ RecorderPause
    \/ RecorderResume
    \/ RecorderStop
    \/ ProcExit
    \/ Tick

ClockSpec == Init /\ [][ClockNext]_vars

\* ------------------------------------------- the monitor thread, interleaved
\* In Spec every lifecycle call is one step.  Here pause and stop_recording
\* are two steps each, the signalling of the encoder (which returns once the
\* process has exited or the timeouts have run out) and the rest of the
\* method, and the monitor threads run in between without the lock.  The
\* calls are made from the GUI thread, which holds ScreenRecorder._lock from
\* the first step of a call to its last.

\* The process table once the call's escalation has returned: the encoder
\* quit on 'q' with code 0, was terminated or killed with a non-zero code,
\* or (pause only) is still running.
Signalled(resp) ==
    [procs EXCEPT ![process] =
        IF procs[process] # "running" THEN procs[process]
        ELSE IF resp = "quit" THEN "exit0"
        ELSE IF resp = "term" THEN "killed"
        ELSE "running"]

\* ScreenRecorder.pause / FFmpegHandler.pause, up to the return of wait().
PauseSignal ==
    /\ inflight = NoCallInFlight
    /\ \E resp \in PauseInputs :
       IF ~is_recording \/ ~PauseOk
       THEN /\ last' = [ NoCall EXCEPT !.op = "pause", !.rejected = TRUE ]
            /\ UNCHANGED << handlerVars, recorderVars, envVars, monitorVars,
                            paused_time >>
       ELSE /\ procs' = Signalled(resp)
            /\ inflight' = [ op |-> "pause", resp |-> resp ]
            /\ _lock' = "gui"
            /\ last' = NoCall
            /\ UNCHANGED << handlerVars, recorderVars, now, next_tmp, dirs,
                            files, monitors, reported, threads, line_str,
                            paused_time >>

\* FFmpegHandler.pause, from _close_log_file() to its return.
PauseFinish ==
    /\ inflight.op = "pause"
    /\ pause(inflight.resp)
    /\ inflight' = NoCallInFlight
    /\ _lock' = Unlocked
    /\ last' = [ NoCall EXCEPT !.op = "pause", !.ok = TRUE ]
    /\ UNCHANGED << recorderVars, reported, threads, line_str >>

\* ScreenRecorder.stop / FFmpegHandler.stop_recording, up to the end of the
\* q / terminate / kill escalation.
StopSignal ==
    /\ inflight = NoCallInFlight
    /\ \E resp \in StopInputs :
       IF ~is_recording
       THEN /\ last' = [ NoCall EXCEPT !.op = "stop", !.rejected = TRUE ]
            /\ UNCHANGED << handlerVars, recorderVars, envVars, monitorVars,
                            paused_time >>
       ELSE /\ procs' = IF ~_is_paused /\ process # None
                        THEN Signalled(resp) ELSE procs
            /\ inflight' = [ op |-> "stop", resp |-> resp ]
            /\ _lock' = "gui"
            /\ last' = NoCall
            /\ UNCHANGED << handlerVars, recorderVars, now, next_tmp, dirs,
                            files, monitors, reported, threads, line_str,
                            paused_time >>

\* FFmpegHandler.stop_recording from `self.process = None` to its return,
\* and the rest of ScreenRecorder.stop.
StopFinish ==
    /\ inflight.op = "stop"
    /\ \E m \in MergeInputs, rm \in CleanupInputs :
       /\ stop_recording(inflight.resp, m, rm)
       /\ last' = [ StopRecord(m) EXCEPT !.cleanup = rm ]
    /\ is_recording' = FALSE
    /\ inflight' = NoCallInFlight
    /\ _lock' = Unlocked
    /\ UNCHANGED << current_output_path, fps, quality, reported, threads,
                    line_str >>

\* One monitor thread, from the test of its loop to its end.  The loop
\* goes on while the handler's process field holds a process that has not
\* exited; after it, a non-zero return code of the process the field holds
\* is reported through on_error unless the pause flag is set.
monitor(p) ==
    /\ monitors[p] = "loop"
    /\ ~(process # None /\ procs[process] = "running")
    /\ monitors' = [monitors EXCEPT ![p] = "done"]
    /\ reported' =
          IF process # None /\ procs[process] \in {"exit1", "killed"}
             /\ ~_is_paused
          THEN Append(reported, [ pid |-> process, status |-> procs[process] ])
          ELSE reported
    /\ last' = NoCall
    /\ UNCHANGED << handlerVars, recorderVars, envVars, inflight, threadVars,
                    paused_time >>

\* One turn of a monitor thread's loop: it reads a progress line from the
\* process the handler's process field holds, stores the parsed progress
\* and puts the line on the output queue.  The queue is modelled by the
\* encoders whose lines it holds.
monitor_line(p) ==
    /\ monitors[p] = "loop"
    /\ process # None /\ procs[process] = "running"
    /\ _last_progress' = ProgressOf(process)
    /\ _output_queue' = _output_queue \cup {process}
    /\ last' = NoCall
    /\ UNCHANGED << process, current_output, start_timestamp,
                    _available_encoders, _segments, _segment_index, _is_paused,
                    _pause_start, _total_pause_duration, _recording_params,
                    _final_output, _temp_dir, _is_recording, _log_file,
                    recorderVars, envVars, monitorVars, paused_time >>

\* FFmpegHandler.get_output_lines: the caller takes the queued lines.
get_output_lines ==
    /\ _output_queue # {}
    /\ _output_queue' = {}
    /\ last' = NoCall
    /\ UNCHANGED << process, current_output, start_timestamp,
                    _available_encoders, _segments, _segment_index, _is_paused,
                    _pause_start, _total_pause_duration, _recording_params,
                    _final_output, _temp_dir, _is_recording, _log_file,
                    _last_progress,
                    recorderVars, envVars, monitorVars, paused_time >>

MonitorStep == \E p \in Pids : monitor(p) \/ monitor_line(p)

\* The calls that start an encoder, taken while no other call holds the lock.
LockedStart == inflight = NoCallInFlight /\ start

LockedResume == inflight = NoCallInFlight /\ RecorderResume

MonitorNext ==
    \/ LockedStart
    \/ LockedResume
    \/ PauseSignal
    \/ PauseFinish
    \/ StopSignal
    \/ StopFinish
    \/ MonitorStep
    \/ get_output_lines
    \/ ProcExit

MonitorSpec == Init /\ [][MonitorNext]_vars

\* ------------------------------------------- one turn of the monitor's loop
\* In MonitorSpec a turn of the loop is one step.  Here it is taken apart
\* at the places where it reads or writes FFmpegHandler._last_progress, a
\* field that the GUI thread reads through get_progress and that
\* stop_recording resets, all without a lock.
otherHandlerVars ==
    << process, current_output, start_timestamp, _available_encoders,
       _segments, _segment_index, _is_paused, _pause_start,
       _total_pause_duration, _recording_params, _final_output, _temp_dir,
       _is_recording, _log_file >>

\* The loop test passes and readline() returns a line of the process the
\* handler's process field holds; the line is decoded, stripped and written
\* to the segment log.
monitor_readline(p) ==
    /\ monitors[p] = "loop"
    /\ process # None /\ procs[process] = "running"
    /\ \E items \in StderrLines :
          line_str' = [line_str EXCEPT ![p] = [ from |-> process,
                                                items |-> items ]]
    /\ monitors' = [monitors EXCEPT ![p] = "read"]
    /\ last' = NoCall
    /\ UNCHANGED << handlerVars, recorderVars, envVars, inflight, reported,
                    _lock, threads, paused_time >>

\* progress_pattern.search: on a match a new RecordingProgress is stored in
\* _last_progress; without one the turn goes on to the queue.
monitor_store(p) ==
    /\ monitors[p] = "read"
    /\ LET match == progress_pattern(line_str[p].items)
       IN  /\ _last_progress' = IF match = <<>> THEN _last_progress
                                 ELSE RecordingProgress(match)
           /\ monitors' = [monitors EXCEPT ![p] =
                              IF match = <<>> THEN "put" ELSE "stored"]
    /\ last' = NoCall
    /\ UNCHANGED << otherHandlerVars, _output_queue, recorderVars, envVars,
                    inflight, reported, threadVars, paused_time >>

\* dropped_pattern.search: on a match the count is written into the object
\* that _last_progress holds now.
monitor_dropped(p) ==
    /\ monitors[p] = "stored"
    /\ LET drop_match == dropped_pattern(line_str[p].items)
       IN  _last_progress' =
              IF drop_match = <<>> THEN _last_progress
              ELSE [ _last_progress EXCEPT !.dropped = int(drop_match[1]) ]
    /\ monitors' = [monitors EXCEPT ![p] = "callback"]
    /\ last' = NoCall
    /\ UNCHANGED << otherHandlerVars, _output_queue, recorderVars, envVars,
                    inflight, reported, threadVars, paused_time >>

\* self._on_progress(self._last_progress): the progress callback is called
\* with what _last_progress holds now.
monitor_callback(p) ==
    /\ monitors[p] = "callback"
    /\ monitors' = [monitors EXCEPT ![p] = "put"]
    /\ last' = [ NoCall EXCEPT !.op = "on_progress",
                               !.progress = _last_progress,
                               !.line = line_str[p] ]
    /\ UNCHANGED << handlerVars, recorderVars, envVars, inflight, reported,
                    threadVars, paused_time >>

\* self._output_queue.put(line_str), and back to the loop test.
monitor_put(p) ==
    /\ monitors[p] = "put"
    /\ _output_queue' = _output_queue \cup {line_str[p].from}
    /\ monitors' = [monitors EXCEPT ![p] = "loop"]
    /\ line_str' = [line_str EXCEPT ![p] = NoLine]
    /\ last' = NoCall
    /\ UNCHANGED << otherHandlerVars, _last_progress, recorderVars, envVars,
                    inflight, reported, _lock, threads, paused_time >>

\* ScreenRecorder.get_progress, which the recording widget polls.
get_progress ==
    /\ last' = [ NoCall EXCEPT !.op = "get_progress",
                               !.progress = _last_progress ]
    /\ UNCHANGED << handlerVars, recorderVars, envVars, monitorVars,
                    paused_time >>

MonitorTurn ==
    \E p \in Pids :
       \/ monitor_readline(p)
       \/ monitor_store(p)
       \/ monitor_dropped(p)
       \/ monitor_callback(p)
       \/ monitor_put(p)
       \/ monitor(p)

ProgressNext ==
    \/ start
    \/ RecorderStop
    \/ MonitorTurn
    \/ get_progress

ProgressSpec == Init /\ [][ProgressNext]_vars

\* ---------------------------------------------- the calls of several threads
\* The GUI's main thread calls pause, resume and stop; each thread the GUI
\* starts runs _start_recording_worker once.  Every recorder method is one
\* `with self._lock` block: a thread waits for the lock, runs the method's
\* body, and releases the lock when the method returns.
ThreadOps(t) == IF t \in Workers THEN {"start"} ELSE {"pause", "resume", "stop"}

\* The call the lock's holder is making.
InFlight == IF _lock = Unlocked THEN "none" ELSE threads[_lock].op

\* A thread makes a call and comes to `with self._lock`.
ThreadCall(t) ==
    /\ threads[t] = Idle
    /\ \E op \in ThreadOps(t) :
          threads' = [threads EXCEPT ![t] =
                         [ op |-> op, at |-> "waiting",
                           behind |-> IF op = "stop" THEN InFlight
                                      ELSE "none" ]]
    /\ UNCHANGED << handlerVars, recorderVars, envVars, monitors, inflight,
                    reported, _lock, line_str, last, paused_time >>

\* The lock is free and the thread takes it.
ThreadEnter(t) ==
    /\ threads[t].at = "waiting"
    /\ _lock = Unlocked
    /\ threads[t].op = "start" => PidsLeft /\ next_tmp <= MaxTmp
    /\ threads[t].op = "resume" => PidsLeft
    /\ _lock' = t
    /\ threads' = [threads EXCEPT ![t].at = "in"]
    /\ last' = NoCall
    /\ UNCHANGED << handlerVars, recorderVars, envVars, monitors, inflight,
                    reported, line_str, paused_time >>

\* The body of the method, run by the thread that holds the lock.
ThreadBody(t) ==
    /\ _lock = t
    /\ threads[t].at = "in"
    /\ last.op = "none"
    /\ \/ threads[t].op = "start" /\ start
       \/ threads[t].op = "pause" /\ RecorderPause
       \/ threads[t].op = "resume" /\ RecorderResume
       \/ threads[t].op = "stop" /\ RecorderStop

\* The method returns and the lock is released.  A worker whose start
\* returned None goes on to the `if not result` branch.
ThreadExit(t) ==
    /\ _lock = t
    /\ last.op # "none"
    /\ _lock' = Unlocked
    /\ threads' = [threads EXCEPT ![t] =
                      IF t \in Workers /\ ~last.ok
                      THEN [ threads[t] EXCEPT !.at = "clear" ]
                      ELSE Idle]
    /\ UNCHANGED << handlerVars, recorderVars, envVars, monitors, inflight,
                    reported, line_str, last, paused_time >>

\* _start_recording_worker after a start that returned None:
\* self.recorder.is_recording = False, written without the lock.
WorkerClear(t) ==
    /\ threads[t].at = "clear"
    /\ is_recording' = FALSE
    /\ threads' = [threads EXCEPT ![t] = Idle]
    /\ UNCHANGED << handlerVars, current_output_path, fps, quality, envVars,
                    monitors, inflight, reported, _lock, line_str, last,
                    paused_time >>

ThreadNext ==
    \E t \in Threads :
       \/ ThreadCall(t)
       \/ ThreadEnter(t)
       \/ ThreadBody(t)
       \/ ThreadExit(t)
       \/ WorkerClear(t)

ThreadSpec == Init /\ [][ThreadNext]_vars

\* ------------------------------------------------ the encoder choice alone
\* Every output the capability query can end with: any subset of the tokens
\* printed, with either return code, or no output at all.
AllEncoderQueries ==
    { [ how |-> h, returncode |-> 0, stdout |-> {} ] : h \in {"raise", "timeout"} }
    \cup { [ how |-> "exit", returncode |-> rc, stdout |-> s ] :
             rc \in {0, 1}, s \in SUBSET Range(EncoderTokens) }

AllProbes == IF _available_encoders = <<>> THEN AllEncoderQueries ELSE {NoQuery}

otherVars ==
    << process, current_output, start_timestamp, _segments, _segment_index,
       _is_paused, _pause_start, _total_pause_duration, _recording_params,
       _final_output, _temp_dir, _is_recording, _log_file, _last_progress,
       _output_queue, recorderVars, envVars, monitorVars, paused_time >>

\* ScreenRecorder.get_available_encoders, called by the GUI.
get_available_encoders_call ==
    \E probe \in AllProbes :
    /\ _available_encoders' =
           << get_available_encoders(_available_encoders, probe) >>
    /\ last' = [ NoCall EXCEPT !.op = "get_available_encoders",
                               !.query = probe ]
    /\ UNCHANGED otherVars

\* ScreenRecorder.get_best_encoder, called by the GUI, under either setting
\* of config.USE_HARDWARE_ENCODER.
get_best_encoder_call ==
    \E use_hardware \in BOOLEAN :
    \E probe \in (IF use_hardware THEN AllProbes ELSE {NoQuery}) :
    /\ _available_encoders' = CacheAfterChoice(use_hardware, probe)
    /\ last' = [ NoCall EXCEPT
                 !.op = "get_best_encoder", !.query = probe,
                 !.use_hardware = use_hardware,
                 !.encoder =
                    get_best_encoder(use_hardware,
                        get_available_encoders(_available_encoders, probe)) ]
    /\ UNCHANGED otherVars

EncoderNext ==
    \/ get_available_encoders_call
    \/ get_best_encoder_call

EncoderSpec == Init /\ [][EncoderNext]_vars

\* --------------------------------------------- the capability cache in use
\* The GUI's encoder queries interleaved with the calls that start a
\* segment, which ask for the best encoder themselves.
CacheNext ==
    \/ get_available_encoders_call
    \/ get_best_encoder_call
    \/ start
    \/ RecorderPause
    \/ RecorderResume

CacheSpec == Init /\ [][CacheNext]_vars

\* ------------------------------------------------- the command line alone
\* _try_ffmpeg up to the command it hands to Popen, for every rectangle,
\* backend, frame rate and preset key, with the encoder the capability
\* query leads to.
_try_ffmpeg_command ==
    \E input_format \in {"ddagrab", "gdigrab"}, rect \in Rects,
       framerate \in Framerates,
       quality_preset \in DOMAIN QUALITY_PRESETS \cup QualityRequests,
       probe \in AllProbes :
    /\ _available_encoders' = CacheAfter(probe)
    /\ last' = [ NoCall EXCEPT
                 !.op = "_try_ffmpeg", !.query = probe, !.rect = rect,
                 !.quality_arg = quality_preset,
                 !.encoder = BestEncoder(probe),
                 !.cmd = cmd(input_format, rect, framerate, quality_preset,
                             BestEncoder(probe)) ]
    /\ UNCHANGED otherVars

CommandSpec == Init /\ [][_try_ffmpeg_command]_vars

\* ------------------------------------------------------------ the settings
set_fps_AcceptsAny(v) ==
    /\ fps' = v
    /\ last' = [ NoCall EXCEPT !.op = "set_fps", !.fps_arg = v ]
    /\ UNCHANGED << handlerVars, envVars, monitorVars, paused_time,
                    is_recording, current_output_path, quality >>

\* ScreenRecorder.set_fps: a value of the allowed list is stored, any other
\* is reported and dropped.
set_fps(v) ==
    /\ fps' = IF v \in FPS_OPTIONS THEN v ELSE fps
    /\ last' = [ NoCall EXCEPT !.op = "set_fps", !.fps_arg = v,
                               !.rejected = v \notin FPS_OPTIONS ]
    /\ UNCHANGED << handlerVars, envVars, monitorVars, paused_time,
                    is_recording, current_output_path, quality >>

\* ScreenRecorder.set_quality: a key of the registry is stored, any other is
\* reported and dropped.
set_quality(k) ==
    /\ quality' = IF k \in DOMAIN QUALITY_PRESETS THEN k ELSE quality
    /\ last' = [ NoCall EXCEPT !.op = "set_quality", !.quality_arg = k,
                               !.rejected = k \notin DOMAIN QUALITY_PRESETS ]
    /\ UNCHANGED << handlerVars, envVars, monitorVars, paused_time,
                    is_recording, current_output_path, fps >>

SetFps == \E v \in FpsRequests : set_fps(v)

SetQuality == \E k \in QualityRequests : set_quality(k)

\* The settings calls, between the lifecycle calls that launch encoders
\* with the settings: start, and resume after a pause.
SettingsNext ==
    \/ SetFps
    \/ SetQuality
    \/ start
    \/ RecorderPause
    \/ RecorderResume

SettingsSpec == Init /\ [][SettingsNext]_vars

\* ---------------------------------------------------------------- claims

\* A call that started a segment has just returned.
SegmentStarted == last.op \in {"start", "resume"} /\ ~last.rejected

\* The encoder the call's first launch selected was a hardware encoder.
HardwareSelected == Len(last.launches) > 0 /\ IsHardware(last.launches[1].encoder)

Failed(outcome) == outcome \in {"raise", "exited"}

\* C1: a start call made while the handler has an active session (it is
\* recording, paused, or left recording by a crash or a failed resume) is
\* refused with a failure result and changes no field of the session, no
\* process, no temp directory and no file.
C1_StartRejectedWhileActive ==
    [][ (last'.op = "start" /\ _is_recording)
        => /\ last'.rejected /\ ~last'.ok
           /\ UNCHANGED sessionVars
           /\ UNCHANGED << procs, next_tmp, dirs, files >> ]_vars

\* C1 witness: a start was refused by the handler itself while its session
\* was paused with a segment on its list.
C1_Witness ==
    /\ last.op = "start" /\ last.rejected
    /\ _is_recording /\ _is_paused /\ Len(_segments) > 0
    /\ current_output_path = None

\* C2 (as claimed): when the first launched process has exited at once and
\* the second would keep running, the segment start succeeds on gdigrab
\* after exactly two launches.
C2_FallbackOnEarlyExit ==
    (SegmentStarted /\ last.plan = << "exited", "running" >>)
    => /\ last.ok
       /\ Len(last.launches) = 2
       /\ last.launches[2].backend = "gdigrab"

\* C3 (as claimed): when a hardware encoder fails at startup on both
\* backends, a "safe mode" warning is delivered and the encoder choice is
\* software from then on.
C3_DemotionToSoftware ==
    (SegmentStarted /\ HardwareSelected
        /\ Failed(last.plan[1]) /\ Failed(last.plan[2]))
    => /\ "warning" \in last.cb
       /\ get_best_encoder(USE_HARDWARE_ENCODER,
              get_available_encoders(_available_encoders, NoQuery))
            = "libx264"

\* C4 (as claimed): when every launch fails with a hardware encoder
\* selected, the start fails after exactly four launch attempts.
C4_FourAttempts ==
    (last.op = "start" /\ ~last.rejected /\ HardwareSelected
        /\ \A i \in DOMAIN last.plan : Failed(last.plan[i]))
    => /\ ~last.ok
       /\ Len(last.launches) = 4

\* C5 (as claimed, tests/test_fault_tolerance.py test_retry_mechanism):
\* first process exited, second running, hardware selected: start returns
\* True after two launches, the first with the hardware encoder, the second
\* with libx264 ultrafast, and the warning callback was called.
C5_RetryMechanism ==
    (last.op = "start" /\ ~last.rejected /\ HardwareSelected
        /\ last.plan = << "exited", "running" >>)
    => /\ last.ok
       /\ Len(last.launches) = 2
       /\ IsHardware(last.launches[1].encoder)
       /\ last.launches[2].encoder = "libx264"
       /\ last.launches[2].preset = "ultrafast"
       /\ "warning" \in last.cb

\* C6 (as claimed, test_immediate_crash_handling): every launched process
\* exits at once, hardware selected: start returns False after exactly two
\* launches and the warning callback was called.
C6_ImmediateCrash ==
    (last.op = "start" /\ ~last.rejected /\ HardwareSelected
        /\ last.plan = << "exited", "exited" >>)
    => /\ ~last.ok
       /\ "warning" \in last.cb
       /\ Len(last.launches) = 2

\* C7 (as claimed): a start that failed leaves the handler as it was before
\* the call: idle, no segment listed, no start timestamp, no temp
\* directory, elapsed time 0.
C7_FailedStartLeavesNothing ==
    (last.op = "start" /\ ~last.rejected /\ ~last.ok)
    => /\ ~_is_recording
       /\ _segments = <<>>
       /\ start_timestamp = None
       /\ _temp_dir = None
       /\ get_elapsed_time = 0

C9_StopDurationIsElapsed ==
    (last.op = "stop" /\ ~last.rejected)
    => /\ last.duration = last.elapsed_at_call
       /\ last.duration >= 0

\* C10 (as claimed): a resume whose segment start failed reports through
\* the error callback and leaves the session paused, so that a later resume
\* is accepted.
C10_FailedResumeStaysPaused ==
    (last.op = "resume" /\ ~last.rejected /\ ~last.ok)
    => /\ "error" \in last.cb
       /\ is_paused
       /\ ResumeAccepted

\* An encoder of the current session has exited by itself with a non-zero
\* status and the handler has since let go of its handle.
CrashedEarlier == \E p \in Pids : procs[p] = "exit1" /\ p # process

\* C11 (as claimed): once an encoder of the session has crashed, the session
\* is Failed and no later pause/resume starts a new encoder instance.
C11_NoSegmentAfterCrash ==
    (CrashedEarlier /\ last.op \in {"resume", "toggle_pause"})
    => process = None

\* C12 (as claimed): no error report is about an exit that a pause or a
\* stop caused, and no exit is reported twice.
C12_NoReportOfUserStop ==
    /\ \A i \in DOMAIN reported : reported[i].status # "killed"
    /\ \A i, j \in DOMAIN reported :
          reported[i].pid = reported[j].pid => i = j

\* C14 (as claimed): a start that succeeded begins from a clean slate: one
\* segment numbered 0 in a temp directory holding nothing else, no pause
\* accumulated, not paused, elapsed time 0, fresh progress, and no output
\* line of an earlier session on the queue.
C14_CleanSlateAfterStop ==
    (last.op = "start" /\ last.ok)
    => /\ _segments = << << _temp_dir, 0 >> >>
       /\ _segment_index = 1
       /\ _total_pause_duration = 0 /\ ~_is_paused
       /\ get_elapsed_time = 0
       /\ \A f \in files : f[1] = _temp_dir => f = current_output
       /\ _last_progress = FreshProgress
       /\ _output_queue = {}

\* The segment files of the current session that are on disk.
SessionFiles == { f \in files : _temp_dir # None /\ f[1] = _temp_dir }

\* C15: when a session with more than one segment on disk is stopped, the
\* concat list names each of them exactly once, in creation order, and
\* nothing else; when the concat run succeeded the result is the final path
\* the session was started with.
C15_ManifestInCreationOrder ==
    [][ (last'.op = "stop" /\ ~last'.rejected /\ Cardinality(SessionFiles) > 1)
        => LET manifest == last'.manifest
           IN  /\ \A f \in SessionFiles :
                     Cardinality({ i \in DOMAIN manifest : manifest[i] = f }) = 1
               /\ \A i \in DOMAIN manifest : manifest[i] \in SessionFiles
               /\ \A i, j \in DOMAIN manifest :
                     i < j => manifest[i][2] < manifest[j][2]
               /\ last'.merge = "ok"
                     => last'.output_path = FinalPath(_temp_dir) ]_vars

\* C15 witness: a stop merged two segments and returned the final path.
C15_Witness ==
    /\ last.op = "stop" /\ last.merge = "ok"
    /\ Len(last.manifest) = 2
    /\ last.output_path \in files /\ last.output_path[1] = 0

\* C16: when the merge of several segments fails, stop still returns its
\* result, and the path in it is the segment of the session with the
\* highest index on disk, never an earlier one.
C16_MergeFailureReturnsLastSegment ==
    [][ (last'.op = "stop" /\ ~last'.rejected /\ last'.merge = "fail"
            /\ Cardinality(SessionFiles) > 1)
        => /\ last'.ok /\ "stopped" \in last'.cb
           /\ last'.output_path \in SessionFiles
           /\ \A f \in SessionFiles : f[2] <= last'.output_path[2] ]_vars

\* C16 witness: the merge of two segments failed and the result names the
\* second one.
C16_Witness ==
    /\ last.op = "stop" /\ last.merge = "fail"
    /\ Len(last.manifest) = 2
    /\ last.output_path = last.manifest[2]
    /\ last.output_path[2] = 1

\* C17 (as claimed): when one segment of the session is on disk at stop, no
\* concat run is made, the segment is moved to the final path with its
\* content, and the final path is returned.
C17_SingleSegmentMoved ==
    [][ (last'.op = "stop" /\ ~last'.rejected /\ Cardinality(SessionFiles) = 1)
        => /\ last'.manifest = <<>>
           /\ last'.output_path = FinalPath(_temp_dir)
           /\ FinalPath(_temp_dir) \in files'
           /\ \A f \in SessionFiles : last'.content = << f >> ]_vars

\* C17 (amended): when one segment of the session is on disk at stop, no
\* concat run is made; when the move succeeds the final file holds the
\* segment's content and the final path is returned; when the move raises,
\* the segment's own path is returned.
C17_SingleSegmentMovedWhenMoveSucceeds ==
    [][ (last'.op = "stop" /\ ~last'.rejected /\ Cardinality(SessionFiles) = 1)
        => /\ last'.manifest = <<>>
           /\ last'.merge = "ok"
                => /\ last'.output_path = FinalPath(_temp_dir)
                   /\ FinalPath(_temp_dir) \in files'
                   /\ \A f \in SessionFiles : last'.content = << f >>
           /\ last'.merge # "ok"
                => last'.output_path \in SessionFiles ]_vars

\* C17 witness: a stop moved the only segment of its session to the final
\* path.
C17_Witness ==
    /\ last.op = "stop" /\ last.merge = "ok"
    /\ last.manifest = <<>> /\ Len(last.content) = 1
    /\ last.output_path \in files /\ last.output_path[1] = 0

\* A step in which an encoder dies by itself.
CrashStep == \E p \in Pids : procs[p] = "running" /\ procs'[p] = "exit1"

\* A step in which a start or a resume returns after all its launch
\* attempts have failed.
FailedLaunchStep ==
    /\ last'.op \in {"start", "resume", "toggle_pause"}
    /\ Len(last'.launches) > 0
    /\ \A i \in DOMAIN last'.launches : last'.launches[i].outcome = "raise"

\* C18: a failed start, a failed resume and an encoder crash delete no
\* file: every segment recorded so far is still in the session's temp
\* directory afterwards.
C18_FailurePathsKeepSegments ==
    [][ (CrashStep \/ FailedLaunchStep)
        => /\ files \subseteq files'
           /\ SessionFiles \subseteq SessionFiles' ]_vars

\* C18 witness: a resume has failed in a session with a recorded segment,
\* which is still on disk.
C18_Witness ==
    /\ last.op = "resume" /\ ~last.rejected /\ ~last.ok
    /\ << _temp_dir, 0 >> \in files
    /\ Len(_segments) = 2

\* C19: a stop that was accepted returns its result whether the merge and
\* the removal of the temp directory succeeded or not, and leaves the
\* handler without a temp directory; unless the removal failed, the
\* session's temp directory and every file in it are gone.
C19_TempDirRemovedAfterStop ==
    [][ (last'.op = "stop" /\ ~last'.rejected /\ _temp_dir # None)
        => /\ last'.ok /\ "stopped" \in last'.cb
           /\ _temp_dir' = None
           /\ last'.cleanup # "fail"
                => /\ _temp_dir \notin dirs'
                   /\ \A f \in files' : f[1] # _temp_dir ]_vars

\* C19 witness: a stop whose merge fell back to the last segment has
\* removed the temp directory, that segment included.
C19_Witness ==
    /\ last.op = "stop" /\ last.merge = "fail" /\ last.cleanup = "ok"
    /\ last.segments_count = 2
    /\ last.output_path \notin files
    /\ _temp_dir = None

\* The capability query the call made has failed: it raised, timed out, or
\* the binary exited with a non-zero code.
QueryFailed ==
    \/ last.query.how \in {"raise", "timeout"}
    \/ last.query.how = "exit" /\ last.query.returncode # 0

\* C20 (as claimed): after a capability query that failed, the detected
\* set is empty, whatever the failed invocation printed.
C20_FailedQueryDetectsNothing ==
    QueryFailed => _available_encoders = << <<>> >>

\* C13: a pause made while the handler is not recording, is already paused
\* or holds no process, and a resume made while it is not paused, return
\* failure and change no field of the session.
C13_InvalidPauseResumeIsNoOp ==
    [][ /\ (last'.op = "pause"
            /\ ~(_is_recording /\ ~_is_paused /\ process # None))
           => (~last'.ok /\ last'.rejected /\ UNCHANGED sessionVars)
        /\ (last'.op = "resume" /\ ~(_is_recording /\ _is_paused))
           => (~last'.ok /\ last'.rejected /\ UNCHANGED sessionVars) ]_vars

\* C13 witness: a pause was refused by the handler because the session was
\* already paused.
C13_Witness ==
    /\ last.op = "pause" /\ last.rejected
    /\ is_recording /\ _is_recording /\ _is_paused
    /\ Len(_segments) > 0 /\ _pause_start # None

\* C21: the best-encoder choice returns software without touching the
\* detected set when hardware encoding is disabled; when it is enabled it
\* returns the detected hardware encoder of highest priority (nvenc before
\* qsv before amf) and software when none of the three is detected.
C21_BestEncoderByPriority ==
    [][ last'.op = "get_best_encoder" =>
        IF ~last'.use_hardware
        THEN last'.encoder = "libx264" /\ UNCHANGED _available_encoders
        ELSE LET detected == Range(_available_encoders'[1])
                 better == [ e \in {"h264_nvenc", "h264_qsv", "h264_amf"} |->
                             IF e = "h264_nvenc" THEN {}
                             ELSE IF e = "h264_qsv" THEN {"h264_nvenc"}
                             ELSE {"h264_nvenc", "h264_qsv"} ]
             IN  /\ \A e \in DOMAIN better :
                       last'.encoder = e
                       <=> (e \in detected /\ better[e] \cap detected = {})
                 /\ last'.encoder = "libx264"
                       <=> DOMAIN better \cap detected = {} ]_vars

\* C21 witness: with qsv and amf both detected and nvenc not, qsv was
\* returned.
C21_Witness ==
    /\ last.op = "get_best_encoder" /\ last.use_hardware
    /\ last.query.how = "exit"
    /\ _available_encoders = << <<"h264_qsv", "h264_amf">> >>
    /\ last.encoder = "h264_qsv"

\* The request of the session: the parameters start_recording stored.
Requested == _recording_params[1]

\* C22 (as claimed): the recorder's fps and quality are always members of
\* the allowed sets, a rejected set_fps or set_quality call changes neither,
\* a value outside the allowed set is rejected, and every encoder launch
\* carries the frame rate and the preset key that were requested.
C22_OnlyRequestedSettingsLaunched ==
    [][ /\ fps' \in FPS_OPTIONS /\ quality' \in DOMAIN QUALITY_PRESETS
        /\ last'.op \in {"set_fps", "set_quality"} /\ last'.rejected
              => UNCHANGED << fps, quality >>
        /\ last'.op = "set_fps" /\ last'.fps_arg \notin FPS_OPTIONS
              => last'.rejected
        /\ last'.op = "set_quality"
              /\ last'.quality_arg \notin DOMAIN QUALITY_PRESETS
              => last'.rejected
        /\ \A i \in DOMAIN last'.launches :
              /\ last'.launches[i].fps = Requested'.framerate
              /\ last'.launches[i].quality = Requested'.quality_preset ]_vars

\* C22 (amended): as above, but a launch on the secondary backend carries
\* the requested frame rate clamped to the backend's ceiling of 60; every
\* launch carries an allowed frame rate and a key of the registry with that
\* key's compression rate.
C22_OnlyValidSettingsLaunched ==
    [][ /\ fps' \in FPS_OPTIONS /\ quality' \in DOMAIN QUALITY_PRESETS
        /\ last'.op \in {"set_fps", "set_quality"} /\ last'.rejected
              => UNCHANGED << fps, quality >>
        /\ last'.op = "set_fps" /\ last'.fps_arg \notin FPS_OPTIONS
              => last'.rejected
        /\ last'.op = "set_quality"
              /\ last'.quality_arg \notin DOMAIN QUALITY_PRESETS
              => last'.rejected
        /\ last'.op = "start" /\ ~last'.rejected
              => /\ Requested'.framerate = fps
                 /\ Requested'.quality_preset = quality
        /\ \A i \in DOMAIN last'.launches :
              LET l == last'.launches[i]
              IN  /\ l.fps \in FPS_OPTIONS
                  /\ l.fps = IF l.backend = "gdigrab"
                              /\ Requested'.framerate > GdigrabFpsCap
                              THEN GdigrabFpsCap ELSE Requested'.framerate
                  /\ l.quality = Requested'.quality_preset
                  /\ l.quality \in DOMAIN QUALITY_PRESETS
                  /\ l.crf = QUALITY_PRESETS[l.quality].crf ]_vars

\* C22 witness: with 144 and "lossless" set, a start launched ddagrab at
\* 144 and, that one having failed, gdigrab at 60 with the lossless preset.
C22_Witness ==
    /\ last.op = "start" /\ Len(last.launches) = 2
    /\ fps = 144 /\ quality = "lossless"
    /\ last.launches[1].fps = 144
    /\ last.launches[2].fps = 60
    /\ last.launches[2].quality = "lossless"

\* C24 (as claimed): the value toggle_pause returns is the pause state right
\* after the call, in every state it is called from.
C24_ToggleReturnsPauseState ==
    last.op = "toggle_pause" => (last.ok <=> is_paused)

\* C25 (as claimed): when an accepted pause returns, the encoder it stopped
\* has exited (by 'q', by terminate or by a final kill), the segment log is
\* closed and the start of the pause is stamped.
C25_PauseEndsEncoder ==
    [][ (last'.op = "pause" /\ last'.ok)
        => /\ procs'[process] # "running"
           /\ process' = None /\ _is_paused'
           /\ _log_file' = FALSE
           /\ _pause_start' = now ]_vars

\* The RecordingProgress a statistics line stands for, read off the line.
ProgressOnLine(items) ==
    IF items = StatsWithDrop
    THEN [ frame |-> 120, fps |-> 598, bitrate |-> "1048.6kbits/s",
           size |-> "256kB", time |-> "00:00:02.00", speed |-> "1.0x",
           dropped |-> 3 ]
    ELSE [ frame |-> 240, fps |-> 600, bitrate |-> "1048.6kbits/s",
           size |-> "512kB", time |-> "00:00:04.00", speed |-> "1.0x",
           dropped |-> 0 ]

\* Monitor p has stored the progress of the statistics line it read and has
\* not yet finished the turn.
HasStored(p) == monitors[p] \in {"stored", "callback"}

\* C23 (as claimed): the progress callback is called with exactly the
\* progress of the statistics line the monitor has read, dropped-frame
\* count included, and from the moment a monitor has stored a line's
\* progress, get_progress returns the progress of that line.
C23_ProgressIsLatestLine ==
    /\ last.op = "on_progress" => last.progress = ProgressOnLine(last.line.items)
    /\ last.op = "get_progress"
          => \A p \in Pids :
                (HasStored(p) /\ \A q \in Pids \ {p} : ~HasStored(q))
                => last.progress = ProgressOnLine(line_str[p].items)

\* C26 (as claimed): a stop of a paused session signals no process, and
\* when stop_recording has finished with the encoder and goes on to the
\* merge, no encoder the handler started is still running.
C26_MergeAfterEncoderExit ==
    [][ (inflight.op = "none" /\ inflight'.op = "stop")
        => /\ _is_paused => procs' = procs
           /\ \A p \in Pids : procs'[p] # "running" ]_vars

\* C29 (as claimed): a monitor thread polls the process, reads its stream
\* or writes the segment log only while no pause or stop is between
\* signalling the process and closing its handles.
C29_MonitorKeepsOffHandlesInUse ==
    [][ MonitorStep => inflight.op = "none" ]_vars

\* C30 (as claimed): no call waits for an encoder to exit while it holds
\* the session lock, and _last_progress is written only by a thread that
\* holds a lock (a monitor thread takes none).
C30_LockDiscipline ==
    [][ /\ inflight'.op \in {"pause", "stop"} => _lock' = Unlocked
        /\ (\E p \in Pids : monitor_line(p)) => UNCHANGED _last_progress
      ]_vars

\* C27 (as claimed): the recorder's state changes only in the body of a
\* lifecycle call run by the thread that holds the lock, so that each call
\* finds the state the call before it left.
C27_CallsSerialized ==
    [][ (\E t \in Threads : ThreadBody(t))
        \/ UNCHANGED << handlerVars, recorderVars >> ]_vars

\* C28 (as claimed): when a stop that was called while a start was in
\* flight on another thread returns, no encoder is running.
C28_StopAfterStartLeavesNoEncoder ==
    ( /\ _lock = "gui"
      /\ threads["gui"].op = "stop"
      /\ threads["gui"].behind = "start"
      /\ last.op = "stop" )
    => \A p \in Pids : procs[p] # "running"

\* C31: the capability query is made only while nothing is cached, every
\* query that is made fills the cache, also one that raised or timed out,
\* and a filled cache never changes: the encoder binary is asked at most
\* once and every later call returns the same list.
C31_CapabilityQueriedOnce ==
    [][ /\ last'.query.how # "none"
            => _available_encoders = <<>> /\ _available_encoders' # <<>>
        /\ _available_encoders # <<>> => UNCHANGED _available_encoders
      ]_vars

\* C31 witness: a segment was started without a query, with the empty
\* list in the cache that a failed query left there.
C31_Witness ==
    /\ last.op \in {"start", "resume"} /\ ~last.rejected
    /\ last.launches # <<>>
    /\ last.query = NoQuery
    /\ _available_encoders = << <<>> >>

\* C32: every segment start launches the primary backend first, at the
\* frame rate of the session's request, and the secondary backend only as
\* a second launch after the primary one failed, at the smaller of the
\* requested frame rate and 60.
C32_PrimaryFirstSecondaryClamped ==
    (last.op \in {"start", "resume"} /\ last.launches # <<>>)
    => LET n == Len(last.launches)
           primary == last.launches[1]
       IN  /\ n <= 2
           /\ primary.backend = "ddagrab"
           /\ primary.fps = Requested.framerate
           /\ n = 2 =>
                 LET secondary == last.launches[2]
                 IN  /\ Failed(primary.outcome)
                     /\ secondary.backend = "gdigrab"
                     /\ secondary.fps <= 60
                     /\ secondary.fps <= Requested.framerate
                     /\ secondary.fps \in {60, Requested.framerate}

\* C32 witness: a resume of a session requested at 144 launched ddagrab at
\* 144 and then gdigrab at 60.
C32_Witness ==
    /\ last.op = "resume" /\ Len(last.launches) = 2
    /\ Requested.framerate = 144
    /\ last.launches[1].backend = "ddagrab" /\ last.launches[1].fps = 144
    /\ last.launches[2].backend = "gdigrab" /\ last.launches[2].fps = 60

\* C33: the command of a request with a rectangle (x1, y1, x2, y2) carries
\* the offset (x1, y1) and a size whose width and height are even, each
\* the rectangle's when that is even and one less when it is odd; the
\* command of a request without a rectangle carries no offset and no size.
C33_RegionCropEven ==
    last.op = "_try_ffmpeg" =>
       IF last.rect = <<>> THEN last.cmd.region = <<>>
       ELSE LET region == last.cmd.region
                width == last.rect[3] - last.rect[1]
                height == last.rect[4] - last.rect[2]
            IN  /\ Len(region) = 3
                /\ region[1] = [ flag |-> "-offset_x", value |-> last.rect[1] ]
                /\ region[2] = [ flag |-> "-offset_y", value |-> last.rect[2] ]
                /\ region[3].flag = "-video_size"
                /\ \E w \in {width - 1, width}, h \in {height - 1, height} :
                      /\ region[3].value = << w, h >>
                      /\ \E k \in 0..3 : w = 2 * k
                      /\ \E k \in 0..3 : h = 2 * k

\* C33 witness: a rectangle of odd width 3 and even height 4 at (0, 0) was
\* cropped to 2x4.
C33_Witness ==
    /\ last.op = "_try_ffmpeg"
    /\ last.rect = << 0, 0, 3, 4 >>
    /\ last.cmd.region[3].value = << 2, 4 >>

\* C34 (as claimed): for every preset of the registry the software encoder
\* is given the preset's compression value unchanged, and each hardware
\* encoder (nvenc, qsv, amf) is given that value plus 5.
C34_HardwareOffsetFive ==
    (last.op = "_try_ffmpeg" /\ last.quality_arg \in DOMAIN QUALITY_PRESETS)
    => LET crf == QUALITY_PRESETS[last.quality_arg].crf
           rate == last.cmd.rate
       IN  /\ rate # <<>>
           /\ \A i \in DOMAIN rate :
                 rate[i].value = IF last.encoder = "libx264" THEN crf
                                 ELSE crf + 5

\* C35 (as claimed): when a stop has returned an output path, a file
\* exists at that path.
C35_ReturnedFileExists ==
    (last.op = "stop" /\ last.output_path # <<>>)
    => last.output_path \in files

\* C36 (as claimed): at most one encoder the handler launched is running,
\* and a running one is the one whose handle the handler holds.
C36_NoEncoderWithoutHandle ==
    /\ Cardinality({ p \in Pids : procs[p] = "running" }) <= 1
    /\ \A p \in Pids : procs[p] = "running" => process = p

\* C37 (as claimed): the monitor thread started for one encoder reads the
\* stream and the exit code of that encoder only: whenever it takes a turn
\* of its loop or leaves it, the handler's process field holds its own
\* encoder or nothing.
C37_MonitorReadsOwnProcess ==
    [][ \A p \in Pids :
           (monitor(p) \/ monitor_line(p)) => process \in {None, p} ]_vars

\* C38 (as claimed): a stop called while the handler has a session
\* (recording, paused, after a failed resume or after a crash of the
\* encoder) ends it: the recorder's and the handler's flags are false, no
\* process handle is held, the stopped callback was called once, and the
\* next start is accepted.
C38_StopEndsSession ==
    [][ (_is_recording /\ last'.op = "stop")
        => /\ ~is_recording' /\ ~_is_recording' /\ ~_is_paused'
           /\ process' = None
           /\ last'.cb = {"stopped"}
           /\ ~AlreadyRecording' ]_vars

\* C39 (as claimed): between lifecycle calls ScreenRecorder.is_recording
\* equals the handler's recording flag.
C39_RecorderFlagIsHandlerFlag == is_recording = _is_recording

\* C40 (as claimed): while a session lasts the elapsed time never goes
\* down; as the clock advances it stays where it is while the session is
\* paused and goes up only while an encoder of the session is running; and
\* a successful resume leaves it where it was.
C40_ElapsedFollowsRecording ==
    [][ (_is_recording /\ _is_recording'
                       /\ start_timestamp' = start_timestamp)
        => /\ get_elapsed_time' >= get_elapsed_time
           /\ (now' # now /\ _is_paused)
                 => get_elapsed_time' = get_elapsed_time
           /\ get_elapsed_time' > get_elapsed_time
                 => process # None /\ procs[process] = "running"
           /\ (last'.op = "resume" /\ last'.ok)
                 => get_elapsed_time' = get_elapsed_time ]_vars

====
